---- MODULE Spec2Model ----
(***************************************************************************)
(* Maintenance scripts of the expense portal, over one SQLite file:        *)
(*   correcao_pos_migracao.py        (reconcile: add columns, backfill)    *)
(*   migrate_melhorias_corrigido_v3.py (users copy-swap, schema, seeding)  *)
(*   correcao_sql_v2.py              (text patch of src/main.py)           *)
(*                                                                         *)
(* A database is a function from table names to tables; a table has the    *)
(* set of its stored column names and a sequence of rows; a row has its    *)
(* integer id and a function from stored column names to values.           *)
(***************************************************************************)
EXTENDS Integers, Sequences, FiniteSets, TLC

VARIABLES
    script,      \* which script this process is: "reconcile", "migrate", "patch"
    fileExists,  \* os.path.exists(DATABASE)
    db,          \* content of src/database/app.db as committed
    conn,        \* the connection of the running migration
    pc,          \* position of the process, "start" to "exited"
    runs,        \* number of processes that have exited so far
    result,      \* return value of the operation of the last process
    report,      \* what the last process printed, as records
    before,      \* db when the last process started
    first,       \* db, result and report when the first process exited
    inserted,    \* a row was inserted by the application between two runs
    exitStatus,  \* exit status of the last process
    mainPy,      \* src/main.py: whether it exists, and its text
    backups,     \* the texts of the backup copies of src/main.py, oldest first
    wrote        \* the last process wrote src/main.py

vars == <<script, fileExists, db, conn, pc, runs, result, report, before, first,
          inserted, exitStatus, mainPy, backups, wrote>>

\* the files of the text-patching script
patchVars == <<mainPy, backups, wrote>>

-----------------------------------------------------------------------------
(* Bounds *)

\* rows a table holds before the first run
MaxRows == 2
\* processes launched one after the other
MaxRuns == 2

-----------------------------------------------------------------------------
(* Values *)

NULL == "NULL"
\* Python's None for a column without DEFAULT
None == "None"
\* datetime('now')
Now == "now"
\* a non-null value stored by the application before the run
Old == "old"

Range(s) == {s[i] : i \in DOMAIN s}

\* the value of an SQL literal
Eval(lit) ==
    CASE lit = "'usuario'" -> "usuario"
      [] lit = "'#667eea'" -> "#667eea"
      [] lit = "'fas fa-tag'" -> "fas fa-tag"
      [] lit = "'individual'" -> "individual"
      [] lit = "'familia'" -> "familia"
      [] lit = "'membro'" -> "membro"
      [] OTHER -> lit

-----------------------------------------------------------------------------
(* The target schema of correcao_pos_migracao.py *)

TableOrder ==
    <<"users", "categorias", "despesas", "despesas_fixas", "grupos",
      "grupo_membros", "cartoes">>

TempTables == <<"users_new", "despesas_new", "categorias_new">>

TableNames == Range(TableOrder) \cup Range(TempTables)

estruturas_esperadas ==
    [users |-> << <<"perfil", "TEXT", "'usuario'">>,
                  <<"nome_completo", "TEXT", None>>,
                  <<"email", "TEXT", None>>,
                  <<"ativo", "BOOLEAN", "1">>,
                  <<"created_at", "TEXT", None>>,
                  <<"updated_at", "TEXT", None>> >>,
     categorias |-> << <<"descricao", "TEXT", None>>,
                       <<"cor", "TEXT", "'#667eea'">>,
                       <<"icone", "TEXT", "'fas fa-tag'">>,
                       <<"ativo", "BOOLEAN", "1">>,
                       <<"created_at", "TEXT", None>> >>,
     despesas |-> << <<"cartao_id", "INTEGER", None>>,
                     <<"grupo_id", "INTEGER", None>>,
                     <<"despesa_fixa_id", "INTEGER", None>>,
                     <<"parcela_atual", "INTEGER", "1">>,
                     <<"total_parcelas", "INTEGER", "1">>,
                     <<"grupo_parcela", "TEXT", None>>,
                     <<"tipo", "TEXT", "'individual'">>,
                     <<"observacoes", "TEXT", None>>,
                     <<"user_id", "INTEGER", None>>,
                     <<"created_at", "TEXT", None>> >>,
     despesas_fixas |-> << <<"observacoes", "TEXT", None>>,
                           <<"user_id", "INTEGER", None>>,
                           <<"grupo_id", "INTEGER", None>>,
                           <<"ativo", "BOOLEAN", "1">>,
                           <<"created_at", "TEXT", None>> >>,
     grupos |-> << <<"descricao", "TEXT", None>>,
                   <<"tipo", "TEXT", "'familia'">>,
                   <<"criado_por", "INTEGER", None>>,
                   <<"ativo", "BOOLEAN", "1">>,
                   <<"created_at", "TEXT", None>> >>,
     grupo_membros |-> << <<"papel", "TEXT", "'membro'">>,
                          <<"adicionado_por", "INTEGER", None>>,
                          <<"created_at", "TEXT", None>> >>,
     cartoes |-> << <<"descricao", "TEXT", None>>,
                    <<"limite_credito", "REAL", "0">>,
                    <<"bandeira", "TEXT", None>>,
                    <<"user_id", "INTEGER", None>>,
                    <<"ativo", "BOOLEAN", "1">>,
                    <<"created_at", "TEXT", None>> >>]

tabelas_com_created_at ==
    <<"users", "categorias", "despesas", "despesas_fixas", "grupos",
      "grupo_membros", "cartoes">>

\* the column names estruturas_esperadas lists for table t
ExpectedNames(t) == {estruturas_esperadas[t][i][1] : i \in DOMAIN estruturas_esperadas[t]}

-----------------------------------------------------------------------------
(* The storage engine, as the scripts use it *)

NoTable == [exists |-> FALSE, cols |-> {}, rows |-> <<>>]

\* SQLite compares identifiers without regard to case; Python's `in` does not.
Fold(c) ==
    CASE c = "ATIVO" -> "ativo"
      [] c = "CREATED_AT" -> "created_at"
      [] OTHER -> c

\* the statement names column c of table t and SQLite resolves it
HasColumn(d, t, c) == d[t].exists /\ \E k \in d[t].cols : Fold(k) = Fold(c)

\* the stored name SQLite resolves c to
Stored(d, t, c) == CHOOSE k \in d[t].cols : Fold(k) = Fold(c)

table_exists(d, table_name) == d[table_name].exists

get_table_columns(d, table_name) == d[table_name].cols

column_exists(d, table_name, column_name) ==
    column_name \in get_table_columns(d, table_name)

\* a connection: the database it sees, the open transaction (with the
\* database to return to on rollback), an uncaught exception, foreign-key
\* enforcement (off when a connection opens), the output and the statements
\* traced, starting with the sqlite3.connect call itself
Connect(d) ==
    [db |-> d, inTx |-> FALSE, saved |-> d, raised |-> FALSE, fk |-> FALSE,
     report |-> <<[kind |-> "connect", table |-> "", column |-> "", count |-> 0]>>]

Entry(kind, t, c, n) == [kind |-> kind, table |-> t, column |-> c, count |-> n]

Log(s, kind, t, c, n) == [s EXCEPT !.report = Append(@, Entry(kind, t, c, n))]

Raise(s) == [s EXCEPT !.raised = TRUE]

\* Python's sqlite3 opens a transaction before INSERT/UPDATE/DELETE when
\* none is open; every other statement runs in the engine's autocommit mode.
BeginBeforeDml(s) ==
    IF s.inTx THEN s ELSE [s EXCEPT !.inTx = TRUE, !.saved = s.db]

AddColumn(tbl, c, val) ==
    [exists |-> TRUE,
     cols |-> tbl.cols \cup {c},
     rows |-> [i \in DOMAIN tbl.rows |->
                 [id |-> tbl.rows[i].id, v |-> (c :> val) @@ tbl.rows[i].v]]]

\* ALTER TABLE t ADD COLUMN c type [DEFAULT lit]: existing rows read the
\* default (NULL without one); a name the table has in any case is a duplicate
SqlAddColumn(s, t, c, default_value) ==
    IF ~s.db[t].exists \/ HasColumn(s.db, t, c)
    THEN Raise(s)
    ELSE [s EXCEPT !.db[t] =
             AddColumn(@, c, IF default_value = None THEN NULL ELSE Eval(default_value))]

\* UPDATE t SET c = val, without the WHERE clause
SetEveryRow(tbl, k, val) ==
    [tbl EXCEPT !.rows =
        [i \in DOMAIN tbl.rows |->
            [id |-> tbl.rows[i].id, v |-> [tbl.rows[i].v EXCEPT ![k] = val]]]]

SetWhereNull(tbl, k, val) ==
    [tbl EXCEPT !.rows =
        [i \in DOMAIN tbl.rows |->
            IF tbl.rows[i].v[k] = NULL
            THEN [id |-> tbl.rows[i].id, v |-> [tbl.rows[i].v EXCEPT ![k] = val]]
            ELSE tbl.rows[i]]]

\* UPDATE t SET c = val WHERE c IS NULL
SqlUpdateWhereNull(s, t, c, val) ==
    IF ~HasColumn(s.db, t, c)
    THEN Raise(s)
    ELSE LET b == BeginBeforeDml(s)
         IN  [b EXCEPT !.db[t] = SetWhereNull(@, Stored(s.db, t, c), val)]

\* SELECT COUNT(*) FROM t WHERE c IS NULL
CountNull(d, t, c) ==
    Cardinality({i \in DOMAIN d[t].rows : d[t].rows[i].v[Stored(d, t, c)] = NULL})

\* conn.rollback(): undoes what was done since the transaction opened
\* a rollback that undoes nothing
RollbackNothing(s) == s.db

Rollback(s) == IF s.inTx THEN s.saved ELSE s.db

-----------------------------------------------------------------------------
(* correcao_pos_migracao.py *)

\* safe_add_column without the UPDATE of created_at
safe_add_column_no_update(s, table_name, column_name, default_value) ==
    IF ~column_exists(s.db, table_name, column_name)
    THEN LET a == SqlAddColumn(s, table_name, column_name, default_value)
         IN  IF a.raised
             THEN Log(s, "error", table_name, column_name, 0)
             ELSE Log(a, "added", table_name, column_name, 0)
    ELSE Log(s, "present", table_name, column_name, 0)

\* safe_add_column reporting the failure and raising it again
safe_add_column_reraise(s, table_name, column_name, default_value) ==
    IF ~column_exists(s.db, table_name, column_name)
    THEN LET a == SqlAddColumn(s, table_name, column_name, default_value)
         IN  IF a.raised
             THEN Raise(Log(s, "error", table_name, column_name, 0))
             ELSE LET u == IF column_name = "created_at" /\ default_value = None
                           THEN SqlUpdateWhereNull(a, table_name, column_name, Now)
                           ELSE a
                  IN  Log(u, "added", table_name, column_name, 0)
    ELSE Log(s, "present", table_name, column_name, 0)

safe_add_column(s, table_name, column_name, default_value) ==
    IF ~column_exists(s.db, table_name, column_name)
    THEN LET a == SqlAddColumn(s, table_name, column_name, default_value)
         IN  IF a.raised
             THEN Log(s, "error", table_name, column_name, 0)
             ELSE LET u == IF column_name = "created_at" /\ default_value = None
                           THEN SqlUpdateWhereNull(a, table_name, column_name, Now)
                           ELSE a
                  IN  Log(u, "added", table_name, column_name, 0)
    ELSE Log(s, "present", table_name, column_name, 0)

RECURSIVE AddMissingColumns(_, _, _)
\* for column_name, column_type, default_value in expected_columns, from i on
AddMissingColumns(s, table_name, i) ==
    LET expected_columns == estruturas_esperadas[table_name]
    IN  IF s.raised \/ i > Len(expected_columns)
        THEN s
        ELSE AddMissingColumns(
                 safe_add_column(s, table_name, expected_columns[i][1],
                                 expected_columns[i][3]),
                 table_name, i + 1)

CheckTable(s, table_name) ==
    IF table_exists(s.db, table_name)
    THEN AddMissingColumns(s, table_name, 1)
    ELSE Log(s, "missing", table_name, "", 0)

RECURSIVE CheckTables(_, _)
\* for table_name, expected_columns in estruturas_esperadas.items(), from i on
CheckTables(s, i) ==
    IF s.raised \/ i > Len(TableOrder) THEN s
    ELSE CheckTables(CheckTable(s, TableOrder[i]), i + 1)

\* n = SELECT COUNT(*) ... IS NULL; if n > 0: UPDATE ...; print
FixNulls(s, t, c, val) ==
    IF s.raised THEN s
    ELSE IF ~HasColumn(s.db, t, c) THEN Raise(s)
    ELSE LET n == CountNull(s.db, t, c)
         IN  IF n > 0
             THEN Log(SqlUpdateWhereNull(s, t, c, val), "backfilled", t, c, n)
             ELSE s

FixUsers(s) == FixNulls(s, "users", "ativo", "1")

\* the categorias pass, backfilling icone as well
FixCategoriasAndIcone(s) ==
    IF ~s.raised /\ table_exists(s.db, "categorias")
    THEN FixNulls(FixNulls(FixNulls(s, "categorias", "ativo", "1"),
                           "categorias", "cor", Eval("'#667eea'")),
                  "categorias", "icone", "1")
    ELSE s

FixCategorias(s) ==
    IF ~s.raised /\ table_exists(s.db, "categorias")
    THEN FixNulls(FixNulls(s, "categorias", "ativo", "1"),
                  "categorias", "cor", Eval("'#667eea'"))
    ELSE s

FixDespesasFixas(s) ==
    IF ~s.raised /\ table_exists(s.db, "despesas_fixas")
    THEN FixNulls(s, "despesas_fixas", "ativo", "1")
    ELSE s

FixCreatedAtOf(s, tabela) ==
    IF ~s.raised /\ table_exists(s.db, tabela)
       /\ column_exists(s.db, tabela, "created_at")
    THEN FixNulls(s, tabela, "created_at", Now)
    ELSE s

RECURSIVE FixCreatedAt(_, _)
\* for tabela in tabelas_com_created_at, from i on
FixCreatedAt(s, i) ==
    IF i > Len(tabelas_com_created_at) THEN s
    ELSE FixCreatedAt(FixCreatedAtOf(s, tabelas_com_created_at[i]), i + 1)

\* the body of the try block, then commit, or rollback on an exception
CorrigirEstrutura(d) ==
    LET s == FixCreatedAt(
                 FixDespesasFixas(FixCategorias(FixUsers(
                     CheckTables(Connect(d), 1)))), 1)
    IN  IF s.raised
        THEN [db |-> Rollback(s), ok |-> FALSE, report |-> s.report]
        ELSE [db |-> s.db, ok |-> TRUE, report |-> s.report]

\* the function without its os.path.exists test
ConnectUnchecked(exists, d) == CorrigirEstrutura(d)

verificar_e_corrigir_estrutura(exists, d) ==
    IF ~exists
    THEN [db |-> d, ok |-> FALSE, report |-> <<Entry("nodb", "", "", 0)>>]
    ELSE CorrigirEstrutura(d)

-----------------------------------------------------------------------------
(* migrate_melhorias_corrigido_v3.py: statements *)

hash_password(password) ==
    CASE password = "Admin@Mhd051121" -> "sha256(Admin@Mhd051121)"
      [] password = "senha123" -> "sha256(senha123)"
      [] OTHER -> "sha256(?)"

\* print, unless an exception is on its way up
Say(s, kind, t, c, n) == IF s.raised THEN s ELSE Log(s, kind, t, c, n)

\* cursor.execute("BEGIN TRANSACTION")
SqlBegin(s) ==
    IF s.raised THEN s
    ELSE IF s.inTx THEN Raise(s)
    ELSE [s EXCEPT !.inTx = TRUE, !.saved = s.db]

\* PRAGMA foreign_keys = ON|OFF: no effect while a transaction is open
PragmaForeignKeys(s, on) ==
    IF s.raised THEN s
    ELSE Log(IF s.inTx THEN s ELSE [s EXCEPT !.fk = on],
             "pragma", "foreign_keys", IF on THEN "ON" ELSE "OFF", 0)

\* CREATE TABLE t (...)
SqlCreateTable(s, t, cols) ==
    IF s.raised THEN s
    ELSE IF s.db[t].exists THEN Raise(s)
    ELSE Log([s EXCEPT !.db[t] = [exists |-> TRUE, cols |-> cols, rows |-> <<>>]],
             "create", t, "", 0)

\* DROP TABLE t; fails: the engine reports an error
SqlDropTable(s, t, fails) ==
    IF s.raised THEN s
    ELSE IF fails \/ ~s.db[t].exists THEN Raise(s)
    ELSE Log([s EXCEPT !.db[t] = NoTable], "drop", t, "", 0)

\* ALTER TABLE t RENAME TO u; fails: the engine reports an error
SqlRenameTable(s, t, u, fails) ==
    IF s.raised THEN s
    ELSE IF fails \/ ~s.db[t].exists \/ s.db[u].exists THEN Raise(s)
    ELSE Log([s EXCEPT !.db[u] = s.db[t], !.db[t] = NoTable], "rename", t, u, 0)

\* the value of column c in row r of table t
Get(d, t, r, c) == r.v[Stored(d, t, c)]

\* the id AUTOINCREMENT gives the next row
NextId(rows) ==
    IF rows = <<>> THEN 1
    ELSE 1 + (CHOOSE m \in {rows[i].id : i \in DOMAIN rows} :
                 \A i \in DOMAIN rows : rows[i].id <= m)

\* INSERT INTO t (DOMAIN vals) VALUES (vals): columns left out are NULL
SqlInsert(s, t, vals) ==
    IF s.raised THEN s
    ELSE IF \E c \in DOMAIN vals : ~HasColumn(s.db, t, c) THEN Raise(s)
    ELSE LET b == BeginBeforeDml(s)
             named == {Stored(s.db, t, c) : c \in DOMAIN vals}
             row == [id |-> NextId(s.db[t].rows),
                     v |-> [k \in s.db[t].cols |->
                              IF k \in named
                              THEN vals[CHOOSE c \in DOMAIN vals :
                                           Stored(s.db, t, c) = k]
                              ELSE NULL]]
         IN  [b EXCEPT !.db[t].rows = Append(@, row)]

-----------------------------------------------------------------------------
(* migrate_melhorias_corrigido_v3.py: the users table *)

UsersColumns ==
    {"username", "password_hash", "perfil", "nome_completo", "email", "ativo",
     "created_at", "updated_at"}

new_columns == <<"nome_completo", "email", "ativo", "created_at", "updated_at">>

\* faults of the storage engine during the copy-swap: the copy raises, the
\* copy stores one row fewer than it read, the drop raises, the rename raises
Faults == {"none", "copy", "lose", "drop", "rename"}

RECURSIVE cleanup_temp_tables_from(_, _)
cleanup_temp_tables_from(s, i) ==
    IF i > Len(TempTables) THEN s
    ELSE cleanup_temp_tables_from(
             IF ~s.raised /\ table_exists(s.db, TempTables[i])
             THEN SqlDropTable(Say(s, "cleanup", TempTables[i], "", 0),
                               TempTables[i], FALSE)
             ELSE s,
             i + 1)

\* a cleanup that drops nothing
cleanup_nothing(s) == s

cleanup_temp_tables(s) == cleanup_temp_tables_from(s, 1)

\* the test extended to the perfil column
needs_migration_or_perfil(d) ==
    \/ \E i \in DOMAIN new_columns : ~column_exists(d, "users", new_columns[i])
    \/ ~column_exists(d, "users", "perfil")

needs_migration(d) ==
    \E i \in DOMAIN new_columns : ~column_exists(d, "users", new_columns[i])

Coalesce(x, y) == IF x = NULL THEN y ELSE x

\* the CASE expression without its ELSE username
NomeCompletoNoElse(username) ==
    CASE username = "master" -> "Administrador Master"
      [] username = "daniela" -> "Daniela Silva"
      [] username = "paulo" -> "Paulo Santos"
      [] OTHER -> NULL

NomeCompleto(username) ==
    CASE username = "master" -> "Administrador Master"
      [] username = "daniela" -> "Daniela Silva"
      [] username = "paulo" -> "Paulo Santos"
      [] OTHER -> username

Email(username) ==
    CASE username = "master" -> "admin@portal.com"
      [] username = "daniela" -> "daniela@email.com"
      [] username = "paulo" -> "paulo@email.com"
      [] OTHER -> NULL

\* a copy that keeps the nome_completo and email the row already stores
CopyRowKeeping(d, r) ==
    LET username == Get(d, "users", r, "username")
        Kept(c, val) ==
            IF HasColumn(d, "users", c) THEN Coalesce(Get(d, "users", r, c), val)
            ELSE val
    IN  [id |-> r.id,
         v |-> [c \in UsersColumns |->
                  CASE c = "username" -> username
                    [] c = "password_hash" -> Get(d, "users", r, "password_hash")
                    [] c = "perfil" -> Coalesce(Get(d, "users", r, "perfil"), "usuario")
                    [] c = "nome_completo" -> Kept(c, NomeCompleto(username))
                    [] c = "email" -> Kept(c, Email(username))
                    [] c = "ativo" -> "1"
                    [] OTHER -> Now]]

\* one row of SELECT id, username, password_hash, COALESCE(perfil, ...), ...
CopyRow(d, r) ==
    LET username == Get(d, "users", r, "username")
    IN  [id |-> r.id,
         v |-> [c \in UsersColumns |->
                  CASE c = "username" -> username
                    [] c = "password_hash" -> Get(d, "users", r, "password_hash")
                    [] c = "perfil" -> Coalesce(Get(d, "users", r, "perfil"), "usuario")
                    [] c = "nome_completo" -> NomeCompleto(username)
                    [] c = "email" -> Email(username)
                    [] c = "ativo" -> "1"
                    [] OTHER -> Now]]

\* INSERT INTO users_new (...) SELECT ... FROM users, under
\* username TEXT UNIQUE NOT NULL, password_hash TEXT NOT NULL
CopyUsers(s, fault) ==
    IF s.raised THEN s
    ELSE IF fault = "copy"
            \/ \E c \in {"username", "password_hash", "perfil"} :
                  ~HasColumn(s.db, "users", c)
    THEN Raise(s)
    ELSE LET old == s.db["users"].rows
             new == [i \in DOMAIN old |-> CopyRow(s.db, old[i])]
         IN  IF \/ \E i \in DOMAIN new : new[i].v["username"] = NULL
                \/ \E i \in DOMAIN new : new[i].v["password_hash"] = NULL
                \/ \E i, j \in DOMAIN new :
                      i # j /\ new[i].v["username"] = new[j].v["username"]
             THEN Raise(s)
             ELSE LET stored == IF fault = "lose"
                                THEN SubSeq(new, 1, Len(new) - 1) ELSE new
                  IN  Log([BeginBeforeDml(s) EXCEPT !.db["users_new"].rows = stored],
                          "copy", "users", "users_new", Len(stored))

\* the copy-swap without the row-count check
CheckNothing(s) == s

\* old_count, new_count; if old_count != new_count: raise Exception(...)
CheckCounts(s) ==
    IF s.raised THEN s
    ELSE LET old_count == Len(s.db["users"].rows)
             new_count == Len(s.db["users_new"].rows)
         IN  IF old_count # new_count
             THEN Raise(Log(s, "dataloss", "users", "users_new", new_count))
             ELSE s

\* the branch `if needs_migration:`
CopySwap(s, fault) ==
    LET a == IF table_exists(s.db, "users_new")
             THEN SqlDropTable(s, "users_new", FALSE) ELSE s
        b == PragmaForeignKeys(a, FALSE)
        c == SqlCreateTable(b, "users_new", UsersColumns)
        d == CheckCounts(CopyUsers(c, fault))
        e == SqlDropTable(d, "users", fault = "drop")
        f == SqlRenameTable(e, "users_new", "users", fault = "rename")
    IN  Say(PragmaForeignKeys(f, TRUE), "migrated", "users", "", 0)

migrate_users_table(s, fault) ==
    LET c == cleanup_temp_tables(s)
    IN  IF c.raised THEN c
        ELSE IF ~table_exists(c.db, "users")
        THEN SqlCreateTable(c, "users", UsersColumns)
        ELSE IF needs_migration(c.db)
        THEN CopySwap(c, fault)
        ELSE Say(c, "uptodate", "users", "", 0)

-----------------------------------------------------------------------------
(* migrate_melhorias_corrigido_v3.py: the other tables *)

GruposColumns == {"nome", "descricao", "tipo", "criado_por", "ativo", "created_at"}

GrupoMembrosColumns == {"grupo_id", "user_id", "papel", "adicionado_por", "created_at"}

CartoesColumns ==
    {"nome", "descricao", "dia_vencimento", "dia_fechamento", "limite_credito",
     "bandeira", "user_id", "ativo", "created_at"}

CategoriasColumns == {"nome", "descricao", "cor", "icone", "ativo", "created_at"}

DespesasFixasColumns ==
    {"descricao", "valor", "dia_vencimento", "categoria_id", "pagador",
     "forma_pagamento", "observacoes", "user_id", "grupo_id", "ativo",
     "created_at"}

DespesasColumns ==
    {"descricao", "valor", "data", "pagador", "forma_pagamento", "categoria_id",
     "cartao_id", "grupo_id", "despesa_fixa_id", "parcela_atual",
     "total_parcelas", "grupo_parcela", "tipo", "observacoes", "user_id",
     "created_at"}

\* this script's safe_add_column: an exception of ALTER TABLE is not caught
add_column(s, table_name, column_name, default_value) ==
    IF s.raised THEN s
    ELSE IF ~column_exists(s.db, table_name, column_name)
    THEN LET a == SqlAddColumn(s, table_name, column_name, default_value)
             u == IF ~a.raised /\ column_name = "created_at" /\ default_value = None
                  THEN SqlUpdateWhereNull(a, table_name, column_name, Now)
                  ELSE a
         IN  Say(u, "added", table_name, column_name, 0)
    ELSE s

RECURSIVE add_columns(_, _, _, _)
\* for column_name, column_type, default_val in columns, from i on
add_columns(s, table_name, columns, i) ==
    IF i > Len(columns) THEN s
    ELSE add_columns(add_column(s, table_name, columns[i][1], columns[i][3]),
                     table_name, columns, i + 1)

create_if_missing(s, t, cols) ==
    IF ~s.raised /\ ~table_exists(s.db, t) THEN SqlCreateTable(s, t, cols) ELSE s

columns_to_add ==
    << <<"descricao", "TEXT", None>>,
       <<"cor", "TEXT", "'#667eea'">>,
       <<"icone", "TEXT", "'fas fa-tag'">>,
       <<"ativo", "BOOLEAN", "1">>,
       <<"created_at", "TEXT", None>> >>

migrate_categorias_table(s) ==
    IF s.raised THEN s
    ELSE IF ~table_exists(s.db, "categorias")
    THEN SqlCreateTable(s, "categorias", CategoriasColumns)
    ELSE Say(add_columns(s, "categorias", columns_to_add, 1),
             "updated", "categorias", "", 0)

despesas_new_columns ==
    << <<"cartao_id", "INTEGER", None>>,
       <<"grupo_id", "INTEGER", None>>,
       <<"despesa_fixa_id", "INTEGER", None>>,
       <<"observacoes", "TEXT", None>>,
       <<"created_at", "TEXT", None>> >>

migrate_despesas(s) ==
    IF s.raised THEN s
    ELSE IF ~table_exists(s.db, "despesas")
    THEN SqlCreateTable(s, "despesas", DespesasColumns)
    ELSE add_columns(s, "despesas", despesas_new_columns, 1)

\* steps [2/8] to [6/8] of migrate_database
MigrateTables(s) ==
    migrate_despesas(
        create_if_missing(
            migrate_categorias_table(
                create_if_missing(
                    create_if_missing(
                        create_if_missing(s, "grupos", GruposColumns),
                        "grupo_membros", GrupoMembrosColumns),
                    "cartoes", CartoesColumns)),
            "despesas_fixas", DespesasFixasColumns))

-----------------------------------------------------------------------------
(* migrate_melhorias_corrigido_v3.py: default data, indices, the handler *)

usuarios_padrao ==
    << <<"master", hash_password("Admin@Mhd051121"), "Master",
         "Administrador Master", "admin@portal.com">>,
       <<"daniela", hash_password("senha123"), "usuario", "Daniela Silva",
         "daniela@email.com">>,
       <<"paulo", hash_password("senha123"), "usuario", "Paulo Santos",
         "paulo@email.com">> >>

\* the UPDATE with nome_completo = ? and email = ? in place of the COALESCE
UpdateUserOverwrite(s, u) ==
    IF \E c \in {"password_hash", "perfil", "nome_completo", "email",
                 "updated_at", "username"} : ~HasColumn(s.db, "users", c)
    THEN Raise(s)
    ELSE LET d == s.db
             K(c) == Stored(d, "users", c)
             upd(r) ==
                 IF Get(d, "users", r, "username") # u[1] THEN r
                 ELSE [id |-> r.id,
                       v |-> [k \in DOMAIN r.v |->
                                CASE k = K("password_hash") -> u[2]
                                  [] k = K("perfil") -> u[3]
                                  [] k = K("nome_completo") -> u[4]
                                  [] k = K("email") -> u[5]
                                  [] k = K("updated_at") -> Now
                                  [] OTHER -> r.v[k]]]
         IN  [BeginBeforeDml(s) EXCEPT !.db["users"].rows =
                 [i \in DOMAIN d["users"].rows |-> upd(d["users"].rows[i])]]

\* UPDATE users SET password_hash = ?, perfil = ?, nome_completo =
\* COALESCE(nome_completo, ?), email = COALESCE(email, ?), updated_at = ... 
\* WHERE username = ?
UpdateUser(s, u) ==
    IF \E c \in {"password_hash", "perfil", "nome_completo", "email",
                 "updated_at", "username"} : ~HasColumn(s.db, "users", c)
    THEN Raise(s)
    ELSE LET d == s.db
             K(c) == Stored(d, "users", c)
             upd(r) ==
                 IF Get(d, "users", r, "username") # u[1] THEN r
                 ELSE [id |-> r.id,
                       v |-> [k \in DOMAIN r.v |->
                                CASE k = K("password_hash") -> u[2]
                                  [] k = K("perfil") -> u[3]
                                  [] k = K("nome_completo") -> Coalesce(r.v[k], u[4])
                                  [] k = K("email") -> Coalesce(r.v[k], u[5])
                                  [] k = K("updated_at") -> Now
                                  [] OTHER -> r.v[k]]]
         IN  [BeginBeforeDml(s) EXCEPT !.db["users"].rows =
                 [i \in DOMAIN d["users"].rows |-> upd(d["users"].rows[i])]]

\* the rows of table t whose column c holds val
RowsWhere(d, t, c, val) ==
    {i \in DOMAIN d[t].rows : Get(d, t, d[t].rows[i], c) = val}

seed_user(s, u) ==
    IF s.raised THEN s
    ELSE IF ~HasColumn(s.db, "users", "username") THEN Raise(s)
    ELSE IF RowsWhere(s.db, "users", "username", u[1]) = {}
    THEN SqlInsert(s, "users",
                   [username |-> u[1], password_hash |-> u[2], perfil |-> u[3],
                    nome_completo |-> u[4], email |-> u[5], ativo |-> "1",
                    created_at |-> Now, updated_at |-> Now])
    ELSE UpdateUser(s, u)

RECURSIVE seed_users(_, _)
\* for username, password_hash, perfil, nome, email in usuarios_padrao
seed_users(s, i) ==
    IF i > Len(usuarios_padrao) THEN s
    ELSE seed_users(seed_user(s, usuarios_padrao[i]), i + 1)

\* the names are written here without their accents
categorias_padrao ==
    << <<"Alimentacao", "Gastos com comida e bebidas", "#28a745", "fas fa-utensils">>,
       <<"Transporte", "Combustivel, transporte publico, etc.", "#007bff", "fas fa-car">>,
       <<"Moradia", "Aluguel, condominio, IPTU, etc.", "#6f42c1", "fas fa-home">>,
       <<"Saude", "Medicos, medicamentos, planos", "#dc3545", "fas fa-heartbeat">>,
       <<"Educacao", "Cursos, livros, material escolar", "#fd7e14", "fas fa-graduation-cap">>,
       <<"Lazer", "Cinema, restaurantes, viagens", "#e83e8c", "fas fa-gamepad">>,
       <<"Vestuario", "Roupas, calcados, acessorios", "#20c997", "fas fa-tshirt">>,
       <<"Tecnologia", "Eletronicos, internet, telefone", "#6c757d", "fas fa-laptop">>,
       <<"Casa em Ordem", "Despesas familiares compartilhadas", "#667eea", "fas fa-users">>,
       <<"Cartao de Credito", "Despesas no cartao de credito", "#ffc107", "fas fa-credit-card">> >>

\* datetime.now().isoformat()
NowIso == "now-iso"

\* insert_categoria_safe without its `if existe: return`
insert_categoria_unchecked(s, nome, descricao, cor, icone) ==
    IF s.raised THEN s
    ELSE IF ~HasColumn(s.db, "categorias", "nome") THEN Raise(s)
    ELSE LET columns == get_table_columns(s.db, "categorias")
             all == [nome |-> nome, descricao |-> descricao, cor |-> cor,
                     icone |-> icone, ativo |-> "1", created_at |-> NowIso]
             insert_columns == {"nome"} \cup (DOMAIN all \cap columns)
         IN  SqlInsert(s, "categorias", [c \in insert_columns |-> all[c]])

insert_categoria_safe(s, nome, descricao, cor, icone) ==
    IF s.raised THEN s
    ELSE IF ~HasColumn(s.db, "categorias", "nome") THEN Raise(s)
    ELSE IF RowsWhere(s.db, "categorias", "nome", nome) # {} THEN s
    ELSE LET columns == get_table_columns(s.db, "categorias")
             all == [nome |-> nome, descricao |-> descricao, cor |-> cor,
                     icone |-> icone, ativo |-> "1", created_at |-> NowIso]
             insert_columns == {"nome"} \cup (DOMAIN all \cap columns)
         IN  SqlInsert(s, "categorias", [c \in insert_columns |-> all[c]])

RECURSIVE seed_categorias(_, _)
\* for nome, desc, cor, icone in categorias_padrao
seed_categorias(s, i) ==
    IF i > Len(categorias_padrao) THEN s
    ELSE seed_categorias(
             insert_categoria_safe(s, categorias_padrao[i][1], categorias_padrao[i][2],
                                   categorias_padrao[i][3], categorias_padrao[i][4]),
             i + 1)

\* INSERT INTO grupo_membros (...) under UNIQUE(grupo_id, user_id)
insert_membro(s, grupo_id, user_id, master_id) ==
    IF s.raised THEN s
    ELSE IF /\ HasColumn(s.db, "grupo_membros", "grupo_id")
            /\ HasColumn(s.db, "grupo_membros", "user_id")
            /\ RowsWhere(s.db, "grupo_membros", "grupo_id", ToString(grupo_id))
               \cap RowsWhere(s.db, "grupo_membros", "user_id", ToString(user_id))
               # {}
    THEN Raise(s)
    ELSE SqlInsert(s, "grupo_membros",
                   [grupo_id |-> ToString(grupo_id), user_id |-> ToString(user_id),
                    papel |-> "membro", adicionado_por |-> ToString(master_id),
                    created_at |-> Now])

RECURSIVE insert_membros(_, _, _, _, _)
\* for user_id, in usuarios, the rows SELECT id FROM users returned
insert_membros(s, usuarios, grupo_id, master_id, i) ==
    IF i > Len(usuarios) THEN s
    ELSE insert_membros(insert_membro(s, grupo_id, usuarios[i].id, master_id),
                        usuarios, grupo_id, master_id, i + 1)

seed_grupo(s) ==
    IF s.raised THEN s
    ELSE IF ~HasColumn(s.db, "grupos", "nome") THEN Raise(s)
    ELSE IF RowsWhere(s.db, "grupos", "nome", "Familia") # {} THEN s
    ELSE LET masters == RowsWhere(s.db, "users", "username", "master")
         IN  IF masters = {} THEN s
             ELSE LET first_master == CHOOSE i \in masters : \A j \in masters : i <= j
                      master_id == s.db["users"].rows[first_master].id
                      grupo_id == NextId(s.db["grupos"].rows)
                      g == SqlInsert(s, "grupos",
                               [nome |-> "Familia",
                                descricao |-> "Grupo familiar para despesas compartilhadas",
                                tipo |-> "familia", criado_por |-> ToString(master_id),
                                ativo |-> "1", created_at |-> Now])
                  IN  insert_membros(g, s.db["users"].rows, grupo_id, master_id, 1)

\* step [7/8] of migrate_database
SeedDefaults(s) == Say(seed_grupo(seed_categorias(seed_users(s, 1), 1)), "seeded", "", "", 0)

\* the table and column of each CREATE INDEX IF NOT EXISTS
indices ==
    << <<"despesas", "data">>, <<"despesas", "user_id">>, <<"despesas", "grupo_id">>,
       <<"despesas", "cartao_id">>, <<"grupo_membros", "grupo_id">>,
       <<"grupo_membros", "user_id">>, <<"cartoes", "user_id">>,
       <<"despesas_fixas", "user_id">> >>

\* step [8/8]: an index on a column the table lacks is an error
CreateIndices(s) ==
    IF s.raised THEN s
    ELSE IF \E i \in DOMAIN indices : ~HasColumn(s.db, indices[i][1], indices[i][2])
    THEN Raise(s)
    ELSE s

\* PRAGMA foreign_keys = ON; COMMIT
Commit(s) ==
    IF s.raised THEN s
    ELSE [PragmaForeignKeys(s, TRUE) EXCEPT !.inTx = FALSE]

\* except Exception: ROLLBACK, then PRAGMA foreign_keys = OFF,
\* cleanup_temp_tables, conn.commit()
Handler(s) ==
    LET r == [s EXCEPT !.db = Rollback(s), !.inTx = FALSE, !.raised = FALSE]
        c == cleanup_temp_tables(PragmaForeignKeys(r, FALSE))
    IN  IF c.raised THEN [r EXCEPT !.fk = FALSE] ELSE c

-----------------------------------------------------------------------------
(* correcao_sql_v2.py *)

\* A text is a sequence of pieces: the words the script looks for, the
\* prefix "d.", one space, the line break, and other words. A string the
\* script searches for is the sequence of its pieces.

\* buscar in texto
Contains(texto, buscar) ==
    \E i \in 1..(Len(texto) - Len(buscar) + 1) :
        SubSeq(texto, i, i + Len(buscar) - 1) = buscar

RECURSIVE Count(_, _)
\* texto.count(buscar): occurrences that do not overlap, from the left
Count(texto, buscar) ==
    IF Len(texto) < Len(buscar) THEN 0
    ELSE IF SubSeq(texto, 1, Len(buscar)) = buscar
    THEN 1 + Count(SubSeq(texto, Len(buscar) + 1, Len(texto)), buscar)
    ELSE Count(Tail(texto), buscar)

\* texto.replace(buscar, substituir, 1): only the first occurrence
ReplaceFirst(texto, buscar, substituir) ==
    IF ~Contains(texto, buscar) THEN texto
    ELSE LET i == CHOOSE k \in 1..(Len(texto) - Len(buscar) + 1) :
                      /\ SubSeq(texto, k, k + Len(buscar) - 1) = buscar
                      /\ \A j \in 1..(k - 1) :
                            SubSeq(texto, j, j + Len(buscar) - 1) # buscar
         IN  SubSeq(texto, 1, i - 1) \o substituir
             \o SubSeq(texto, i + Len(buscar), Len(texto))

RECURSIVE Replace(_, _, _)
\* texto.replace(buscar, substituir)
Replace(texto, buscar, substituir) ==
    IF Len(texto) < Len(buscar) THEN texto
    ELSE IF SubSeq(texto, 1, Len(buscar)) = buscar
    THEN substituir
         \o Replace(SubSeq(texto, Len(buscar) + 1, Len(texto)), buscar, substituir)
    ELSE <<Head(texto)>> \o Replace(Tail(texto), buscar, substituir)

\* 'WHERE grupo_id' -> 'WHERE d.grupo_id' and the like
Prefixed(keyword, column) ==
    [buscar |-> <<keyword, " ", column>>, substituir |-> <<keyword, " ", "d.", column>>]

consultas_especificas ==
    << Prefixed("WHERE", "grupo_id"), Prefixed("AND", "grupo_id"),
       Prefixed("ORDER BY", "grupo_id"), Prefixed("GROUP BY", "grupo_id"),
       Prefixed("WHERE", "user_id"), Prefixed("AND", "user_id"),
       Prefixed("ORDER BY", "user_id") >>

\* no text: the None the two functions return when they corrected nothing
NoResult == [some |-> FALSE, conteudo |-> <<>>, correcoes |-> <<>>]

RECURSIVE ApplyEspecificas(_, _, _)
\* for consulta in consultas_especificas, from i on: the text and the
\* corrections (which consulta, how many times) so far
ApplyEspecificas(conteudo_modificado, correcoes, i) ==
    IF i > Len(consultas_especificas)
    THEN [conteudo |-> conteudo_modificado, correcoes |-> correcoes]
    ELSE LET buscar == consultas_especificas[i].buscar
             substituir == consultas_especificas[i].substituir
         IN  IF Contains(conteudo_modificado, buscar)
             THEN ApplyEspecificas(Replace(conteudo_modificado, buscar, substituir),
                                   Append(correcoes,
                                          <<i, Count(conteudo_modificado, buscar)>>),
                                   i + 1)
             ELSE ApplyEspecificas(conteudo_modificado, correcoes, i + 1)

corrigir_consultas_especificas(conteudo) ==
    LET r == ApplyEspecificas(conteudo, <<>>, 1)
    IN  IF r.correcoes # <<>>
        THEN [some |-> TRUE, conteudo |-> r.conteudo, correcoes |-> r.correcoes]
        ELSE NoResult

RECURSIVE Split(_)
\* conteudo.split('\n')
Split(conteudo) ==
    IF \A i \in DOMAIN conteudo : conteudo[i] # "\n" THEN <<conteudo>>
    ELSE LET i == CHOOSE k \in DOMAIN conteudo :
                      conteudo[k] = "\n" /\ \A j \in 1..(k - 1) : conteudo[j] # "\n"
         IN  <<SubSeq(conteudo, 1, i - 1)>>
             \o Split(SubSeq(conteudo, i + 1, Len(conteudo)))

RECURSIVE Join(_)
\* '\n'.join(linhas)
Join(linhas) ==
    IF Len(linhas) = 1 THEN linhas[1]
    ELSE linhas[1] \o <<"\n">> \o Join(Tail(linhas))

\* a piece of linha.upper()
Upper(piece) ==
    CASE piece = "from" -> "FROM"
      [] piece = "join" -> "JOIN"
      [] piece = "on" -> "ON"
      [] OTHER -> piece

\* word in linha.upper()
UpperHas(linha, word) == \E i \in DOMAIN linha : Upper(linha[i]) = word

\* the condition under which a line is searched
IsJoinLine(linhas, i) ==
    \/ UpperHas(linhas[i], "FROM") /\ UpperHas(linhas[i], "JOIN")
    \/ /\ i > 1
       /\ UpperHas(linhas[i - 1], "JOIN")
       /\ \E col \in {"grupo_id", "user_id", "categoria_id"} :
             \E k \in DOMAIN linhas[i] : linhas[i][k] = col

substituicoes ==
    << [buscar |-> <<"ON", " ", "grupo_id", " ", "=", " ">>,
        substituir |-> <<"ON", " ", "d.", "grupo_id", " ", "=", " ">>],
       [buscar |-> <<"ON", " ", "user_id", " ", "=", " ">>,
        substituir |-> <<"ON", " ", "d.", "user_id", " ", "=", " ">>],
       [buscar |-> <<"=", " ", "grupo_id">>,
        substituir |-> <<"=", " ", "d.", "grupo_id">>],
       [buscar |-> <<"=", " ", "user_id">>,
        substituir |-> <<"=", " ", "d.", "user_id">>] >>

RECURSIVE ApplySubstituicoes(_, _, _, _)
\* for buscar, substituir in substituicoes.items(), from k on, in line i
ApplySubstituicoes(linha, consultas_corrigidas, i, k) ==
    IF k > Len(substituicoes)
    THEN [linha |-> linha, corrigidas |-> consultas_corrigidas]
    ELSE IF Contains(linha, substituicoes[k].buscar)
    THEN ApplySubstituicoes(
             Replace(linha, substituicoes[k].buscar, substituicoes[k].substituir),
             Append(consultas_corrigidas, <<i, k>>), i, k + 1)
    ELSE ApplySubstituicoes(linha, consultas_corrigidas, i, k + 1)

RECURSIVE ApplyLinhas(_, _, _, _)
\* for i, linha in enumerate(linhas), from i on
ApplyLinhas(linhas, linhas_modificadas, consultas_corrigidas, i) ==
    IF i > Len(linhas)
    THEN [linhas |-> linhas_modificadas, corrigidas |-> consultas_corrigidas]
    ELSE IF IsJoinLine(linhas, i)
    THEN LET r == ApplySubstituicoes(linhas[i], consultas_corrigidas, i, 1)
         IN  ApplyLinhas(linhas, Append(linhas_modificadas, r.linha), r.corrigidas,
                         i + 1)
    ELSE ApplyLinhas(linhas, Append(linhas_modificadas, linhas[i]),
                     consultas_corrigidas, i + 1)

adicionar_prefixos_tabela(conteudo) ==
    LET r == ApplyLinhas(Split(conteudo), <<>>, <<>>, 1)
    IN  IF r.corrigidas # <<>>
        THEN [some |-> TRUE, conteudo |-> Join(r.linhas), correcoes |-> r.corrigidas]
        ELSE NoResult

\* what corrigir_arquivo_main does to the text it read: the text to save
\* and todas_correcoes
Corrigir(conteudo) ==
    LET r1 == corrigir_consultas_especificas(conteudo)
        c1 == IF r1.some /\ r1.conteudo # <<>> THEN r1.conteudo ELSE conteudo
        t1 == IF r1.some /\ r1.conteudo # <<>> THEN r1.correcoes ELSE <<>>
        r2 == adicionar_prefixos_tabela(c1)
        c2 == IF r2.some /\ r2.conteudo # <<>> THEN r2.conteudo ELSE c1
        t2 == IF r2.some /\ r2.conteudo # <<>> THEN r2.correcoes ELSE <<>>
    IN  [conteudo |-> c2, correcoes |-> t1 \o t2]

\* src/main.py and the backups beside it
NoFile == [exists |-> FALSE, conteudo |-> <<>>]

\* no copy is taken
fazer_backup_nenhum(file, copies) == copies

\* shutil.copy2(caminho_arquivo, backup_path) when the file exists
fazer_backup_arquivo(file, copies) ==
    IF file.exists THEN Append(copies, file.conteudo) ELSE copies

\* corrigir_arquivo_main but for its call of fazer_backup_arquivo, whose
\* copy is among copies: the file, the backups, whether the file was
\* written, the value returned
corrigir_arquivo_main(file, copies) ==
    IF ~file.exists
    THEN [file |-> file, backups |-> copies, wrote |-> FALSE, ok |-> FALSE]
    ELSE LET r == Corrigir(file.conteudo)
         IN  IF r.correcoes # <<>>
             THEN [file |-> [exists |-> TRUE, conteudo |-> r.conteudo],
                   backups |-> copies, wrote |-> TRUE, ok |-> TRUE]
             ELSE [file |-> file, backups |-> copies,
                   wrote |-> FALSE, ok |-> FALSE]

-----------------------------------------------------------------------------
(* Databases the reconcile script is started on *)

\* a column every version of the table has
BaseColumn(t) ==
    CASE t = "users" -> "username"
      [] t \in {"despesas", "despesas_fixas"} -> "valor"
      [] t = "grupo_membros" -> "grupo_id"
      [] OTHER -> "nome"

Shapes == {"bare", "stamped", "variant", "full"}

ShapeColumns(t, sh) ==
    CASE sh = "bare" -> {}
      [] sh = "stamped" -> {"created_at"}
      [] sh = "variant" -> {"ATIVO", "CREATED_AT"}
      [] OTHER -> ExpectedNames(t)

\* nulls rows with NULL in every column but the base one, then olds rows
\* with a value in every column
MakeTable(t, sh, nulls, olds) ==
    LET cs == ShapeColumns(t, sh) \cup {BaseColumn(t)}
    IN  [exists |-> TRUE,
         cols |-> cs,
         rows |-> [i \in 1..(nulls + olds) |->
                     [id |-> i,
                      v |-> [c \in cs |->
                               IF c # BaseColumn(t) /\ i <= nulls
                               THEN NULL ELSE Old]]]]

TableChoices(t, nulls, olds) ==
    {NoTable} \cup {MakeTable(t, sh, nulls, olds) : sh \in Shapes}

\* the application inserts a row and leaves every column but the base one NULL
InsertNullRow(tbl, t) ==
    [tbl EXCEPT !.rows =
        Append(@, [id |-> Len(tbl.rows) + 1,
                   v |-> [c \in tbl.cols |-> IF c = BaseColumn(t) THEN Old ELSE NULL]])]

-----------------------------------------------------------------------------
(* Databases the migration script is started on *)

\* rows the users table holds before the first run
MaxUsers == 2

LegacyUsernames == {"master", "paulo", "ana"}

\* a users table of an earlier version: with or without perfil, with some of
\* new_columns; row i has id 2 * i and username names[i]; the optional
\* columns are all NULL or all set
LegacyUsers(perfil, extra, names, filled) ==
    LET cs == {"username", "password_hash"}
              \cup (IF perfil THEN {"perfil"} ELSE {}) \cup extra
    IN  [exists |-> TRUE,
         cols |-> cs,
         rows |-> [i \in DOMAIN names |->
                     [id |-> 2 * i,
                      v |-> [c \in cs |->
                               CASE c = "username" -> names[i]
                                 [] c = "password_hash" -> Old
                                 [] OTHER -> IF filled THEN Old ELSE NULL]]]]

UsernameChoices ==
    UNION {[1..n -> LegacyUsernames] : n \in 0..MaxUsers}

UsersChoices ==
    {NoTable} \cup
    {LegacyUsers(perfil, extra, names, filled) :
        perfil \in BOOLEAN,
        extra \in {{}, {"nome_completo", "email"}, Range(new_columns)},
        names \in UsernameChoices,
        filled \in BOOLEAN}

\* users_new as a run that was killed during the copy-swap left it
OrphanUsersNew ==
    [exists |-> TRUE,
     cols |-> UsersColumns,
     rows |-> <<[id |-> 9,
                 v |-> [c \in UsersColumns |->
                          IF c = "username" THEN "ghost" ELSE Old]]>>]

\* a temporary table left behind, holding one row
Orphan(t) ==
    IF t = "users_new" THEN OrphanUsersNew
    ELSE [exists |-> TRUE,
          cols |-> {"descricao"},
          rows |-> <<[id |-> 9, v |-> [c \in {"descricao"} |-> "ghost"]]>>]

\* the temporary tables an earlier run left: none, users_new, all three
OrphanChoices == {{}, {"users_new"}, Range(TempTables)}

TableWith(cols, names, c) ==
    [exists |-> TRUE,
     cols |-> cols,
     rows |-> [i \in DOMAIN names |->
                 [id |-> i, v |-> [k \in cols |-> IF k = c THEN names[i] ELSE Old]]]]

\* the id of a user whose row was deleted: no users row has it
DeletedUserId == "99"

\* the table with column c of every row set to the id
Referencing(tbl, c, id) ==
    [tbl EXCEPT !.rows =
        [i \in DOMAIN tbl.rows |->
            [id |-> tbl.rows[i].id, v |-> [tbl.rows[i].v EXCEPT ![c] = id]]]]

\* the columns despesas has before despesas_new_columns are added
LegacyDespesasColumns ==
    DespesasColumns \ {despesas_new_columns[i][1] : i \in DOMAIN despesas_new_columns}

\* the other tables: none; those of the first version of the portal,
\* despesas without user_id or with a user_id that references a deleted
\* user; those of a migrated portal
OtherTables == {"fresh", "legacy", "legacy_user_id", "migrated"}

OtherTable(kind, t) ==
    CASE kind = "fresh" -> NoTable
      [] kind \in {"legacy", "legacy_user_id"} ->
            (CASE t = "categorias" ->
                    TableWith({"nome"}, <<"Alimentacao", "Outros">>, "nome")
               [] t = "despesas" ->
                    IF kind = "legacy"
                    THEN TableWith(LegacyDespesasColumns \ {"user_id"},
                                   <<"mercado">>, "descricao")
                    ELSE Referencing(TableWith(LegacyDespesasColumns,
                                               <<"mercado">>, "descricao"),
                                     "user_id", DeletedUserId)
               [] OTHER -> NoTable)
      [] OTHER ->
            (CASE t = "categorias" ->
                    TableWith(CategoriasColumns, <<"Alimentacao", "Outros">>, "nome")
               [] t = "despesas" -> TableWith(DespesasColumns, <<"mercado">>, "descricao")
               [] t = "despesas_fixas" ->
                    TableWith(DespesasFixasColumns, <<"aluguel">>, "descricao")
               [] t = "grupos" -> TableWith(GruposColumns, <<"Familia">>, "nome")
               [] t = "grupo_membros" -> TableWith(GrupoMembrosColumns, <<>>, "papel")
               [] t = "cartoes" -> TableWith(CartoesColumns, <<"visa">>, "nome")
               [] OTHER -> NoTable)

-----------------------------------------------------------------------------
(* Texts of src/main.py the patching script is started on *)

\* phrases a text is made of
MaxPhrases == 3

Phrases ==
    { <<"WHERE", " ", "grupo_id">>,
      <<" ", "AND", " ", "user_id">>,
      <<"FROM", " ", "x", " ", "JOIN", " ">>,
      <<"ON", " ", "grupo_id", " ", "=", " ">>,
      <<"=", " ", "user_id">>,
      <<"join", " ">>,
      <<"grupo_id">>,
      <<"d.">>,
      <<"\n">> }

RECURSIVE Flatten(_)
Flatten(phrases) ==
    IF phrases = <<>> THEN <<>> ELSE Head(phrases) \o Flatten(Tail(phrases))

Texts == {Flatten(ps) : ps \in UNION {[1..n -> Phrases] : n \in 0..MaxPhrases}}

-----------------------------------------------------------------------------
(* The processes *)

Closed == [Connect([t \in TableNames |-> NoTable]) EXCEPT !.report = <<>>]

NoRun == [db |-> [t \in TableNames |-> NoTable], ok |-> FALSE, report |-> <<>>]

InitProcess ==
    /\ conn = Closed
    /\ pc = "start"
    /\ runs = 0
    /\ result = FALSE
    /\ report = <<>>
    /\ before = db
    /\ first = NoRun
    /\ inserted = FALSE
    /\ exitStatus = -1
    /\ backups = <<>>
    /\ wrote = FALSE

\* Two tables a and b are absent or have any of the shapes; the other tables
\* are all absent or all as the target schema has them. Every table holds
\* the same number of rows.
InitReconcile ==
    /\ script = "reconcile"
    /\ \/ /\ fileExists = FALSE
          /\ db = [t \in TableNames |-> NoTable]
       \/ /\ fileExists = TRUE
          /\ \E nulls \in 0..MaxRows, olds \in 0..MaxRows, rest \in BOOLEAN,
                a \in Range(TableOrder), b \in Range(TableOrder) :
               /\ nulls + olds <= MaxRows
               /\ \E ta \in TableChoices(a, nulls, olds),
                     tb \in TableChoices(b, nulls, olds) :
                    db = [t \in TableNames |->
                            IF t = a THEN ta
                            ELSE IF t = b THEN tb
                            ELSE IF rest /\ t \in Range(TableOrder)
                                 THEN MakeTable(t, "full", nulls, olds)
                                 ELSE NoTable]
    /\ mainPy = NoFile
    /\ InitProcess

InitMigrate ==
    /\ script = "migrate"
    /\ \E users \in UsersChoices, orphans \in OrphanChoices, kind \in OtherTables :
         db = [t \in TableNames |->
                 CASE t = "users" -> users
                   [] t \in orphans -> Orphan(t)
                   [] OTHER -> OtherTable(kind, t)]
    /\ fileExists \in {TRUE, \E t \in TableNames : db[t].exists}
    /\ mainPy = NoFile
    /\ InitProcess

\* the script is started in a directory without src/main.py, or with one
\* whose text is any sequence of up to MaxPhrases phrases
InitPatch ==
    /\ script = "patch"
    /\ fileExists = FALSE
    /\ db = [t \in TableNames |-> NoTable]
    /\ mainPy \in {NoFile} \cup {[exists |-> TRUE, conteudo |-> c] : c \in Texts}
    /\ InitProcess

Init == InitReconcile \/ InitMigrate \/ InitPatch

\* input("Pressione Enter para continuar..."), the last statement of each
\* script: the process ends with status 0, or 1 when input raises EOFError
ExitStatusOf(ok, eof) == IF eof THEN 1 ELSE 0

\* the operation returns ok and leaves the file as d
Return(d, ok, out) ==
    /\ db' = d
    /\ result' = ok
    /\ report' = out
    /\ first' = IF runs = 0 THEN [db |-> d, ok |-> ok, report |-> out] ELSE first
    /\ before' = before
    /\ pc' = "returned"

\* sqlite3.connect was called, which creates the file when there is none
Connected(out) == \E i \in DOMAIN out : out[i].kind = "connect"

\* python correcao_pos_migracao.py, up to the return of
\* verificar_e_corrigir_estrutura
RunReconcile ==
    /\ script = "reconcile"
    /\ pc = "start"
    /\ LET r == verificar_e_corrigir_estrutura(fileExists, db)
       IN  /\ Return(r.db, r.ok, r.report)
           /\ fileExists' = (fileExists \/ Connected(r.report))
    /\ UNCHANGED <<script, conn, runs, inserted, exitStatus, patchVars>>

\* the migration raised: the except block, return False
Fail(s) ==
    LET h == Handler(s)
    IN  /\ conn' = h
        /\ Return(h.db, FALSE, h.report)

\* migrate_database from connect to the end of step [1/8]
MigrateUsers(fault) ==
    /\ script = "migrate"
    /\ pc = "start"
    /\ LET s == migrate_users_table(SqlBegin(Connect(db)), fault)
       IN  IF s.raised THEN Fail(s)
           ELSE /\ conn' = s
                /\ pc' = "tables"
                /\ UNCHANGED <<db, result, report, first, before>>
    /\ fileExists' = TRUE
    /\ UNCHANGED <<script, runs, inserted, exitStatus, patchVars>>

\* steps [2/8] to [6/8]
MigrateOthers ==
    /\ pc = "tables"
    /\ LET s == MigrateTables(conn)
       IN  IF s.raised THEN Fail(s)
           ELSE /\ conn' = s
                /\ pc' = "seed"
                /\ UNCHANGED <<db, result, report, first, before>>
    /\ UNCHANGED <<script, fileExists, runs, inserted, exitStatus, patchVars>>

\* step [7/8]
Seed ==
    /\ pc = "seed"
    /\ LET s == SeedDefaults(conn)
       IN  IF s.raised THEN Fail(s)
           ELSE /\ conn' = s
                /\ pc' = "indices"
                /\ UNCHANGED <<db, result, report, first, before>>
    /\ UNCHANGED <<script, fileExists, runs, inserted, exitStatus, patchVars>>

\* step [8/8], COMMIT and return True
Finish ==
    /\ pc = "indices"
    /\ LET s == Commit(CreateIndices(conn))
       IN  IF s.raised THEN Fail(s)
           ELSE /\ conn' = s
                /\ Return(s.db, TRUE, s.report)
    /\ UNCHANGED <<script, fileExists, runs, inserted, exitStatus, patchVars>>

\* python correcao_sql_v2.py on an existing src/main.py, up to the return
\* of fazer_backup_arquivo
BackupMain ==
    /\ script = "patch"
    /\ pc = "start"
    /\ mainPy.exists
    /\ backups' = fazer_backup_arquivo(mainPy, backups)
    /\ pc' = "backup"
    /\ UNCHANGED <<script, fileExists, db, conn, runs, result, report, before,
                   first, inserted, exitStatus, mainPy, wrote>>

\* corrigir_arquivo_main returns: at once when there is no src/main.py,
\* after the backup otherwise
RunPatch ==
    /\ script = "patch"
    /\ \/ pc = "start" /\ ~mainPy.exists
       \/ pc = "backup"
    /\ LET r == corrigir_arquivo_main(mainPy, backups)
       IN  /\ mainPy' = r.file
           /\ backups' = r.backups
           /\ wrote' = r.wrote
           /\ Return(db, r.ok, <<>>)
    /\ UNCHANGED <<script, fileExists, conn, runs, inserted, exitStatus>>

\* the rest of __main__: the messages and input()
Exit(eof) ==
    /\ pc = "returned"
    /\ pc' = "exited"
    /\ runs' = runs + 1
    /\ exitStatus' = ExitStatusOf(result, eof)
    /\ UNCHANGED <<script, fileExists, db, conn, result, report, before, first,
                   inserted, patchVars>>

\* the operator starts the same script again
Relaunch ==
    /\ pc = "exited"
    /\ runs < MaxRuns
    /\ pc' = "start"
    /\ exitStatus' = -1
    /\ conn' = Closed
    /\ before' = db
    /\ UNCHANGED <<script, fileExists, db, runs, result, report, first, inserted,
                   patchVars>>

\* the tables the application inserts into between two runs
InsertTables == {"categorias", "despesas_fixas"}

\* between two runs the application inserts a row
InsertRow(t) ==
    /\ script = "reconcile"
    /\ pc = "exited"
    /\ runs = 1
    /\ ~inserted
    /\ db[t].exists
    /\ db' = [db EXCEPT ![t] = InsertNullRow(@, t)]
    /\ inserted' = TRUE
    /\ UNCHANGED <<script, fileExists, conn, pc, runs, result, report, before,
                   first, exitStatus, patchVars>>

Next ==
    \/ RunReconcile
    \/ BackupMain
    \/ RunPatch
    \/ \E fault \in Faults : MigrateUsers(fault)
    \/ MigrateOthers
    \/ Seed
    \/ Finish
    \/ \E eof \in BOOLEAN : Exit(eof)
    \/ Relaunch
    \/ \E t \in InsertTables : InsertRow(t)

Spec == Init /\ [][Next]_vars

-----------------------------------------------------------------------------
(* Properties *)

\* verificar_e_corrigir_estrutura has returned
ReconcileReturned == script = "reconcile" /\ pc = "returned"

\* migrate_database has returned
MigrateReturned == script = "migrate" /\ pc = "returned"

\* the positions of the entries of kind k about table t in the output
Entries(out, k, t) == {i \in DOMAIN out : out[i].kind = k /\ out[i].table = t}

\* the position of column c in the expected columns of table t
ColumnIndex(t, c) ==
    CHOOSE j \in DOMAIN estruturas_esperadas[t] : estruturas_esperadas[t][j][1] = c

TableIndex(t) == CHOOSE j \in DOMAIN TableOrder : TableOrder[j] = t

\* the columns whose NULLs the second pass of reconcile replaces
BackfillList ==
    {<<"users", "ativo">>, <<"categorias", "ativo">>, <<"categorias", "cor">>,
     <<"despesas_fixas", "ativo">>}
    \cup {<<t, "created_at">> : t \in Range(TableOrder)}

\* C1: a second reconcile run right after the first leaves the database as
\* the first run left it, adds no column and backfills no row
C1_ReconcileIdempotent ==
    (ReconcileReturned /\ runs = 1 /\ ~inserted) =>
        /\ db = first.db
        /\ \A i \in DOMAIN report : report[i].kind \notin {"added", "backfilled"}

C5_MissingTableNonFatal ==
    (ReconcileReturned /\ fileExists) =>
        \A t \in Range(TableOrder) :
            ~before[t].exists =>
                /\ Entries(report, "missing", t) # {}
                /\ \A i \in DOMAIN report :
                      report[i].table = t => report[i].kind = "missing"
                /\ ~db[t].exists
                /\ result

\* only despesas_fixas exists, and it has no ativo column
OnlyDespesasFixas(d) ==
    \A t \in TableNames : d[t].exists <=> t = "despesas_fixas"

\* the rows of despesas_fixas whose ativo is NULL
NullAtivo(d) ==
    {i \in DOMAIN d["despesas_fixas"].rows :
        Get(d, "despesas_fixas", d["despesas_fixas"].rows[i], "ativo") = NULL}

\* C6: on a database with only despesas_fixas, without ativo and with n rows,
\* reconcile adds ativo, true in every row, and reports n rows backfilled;
\* after a row with ativo NULL is inserted, a second run sets it and reports
\* one row backfilled
C6_BackfillScenario ==
    /\ (/\ ReconcileReturned
        /\ runs = 0
        /\ OnlyDespesasFixas(before)
        /\ ~HasColumn(before, "despesas_fixas", "ativo")
        /\ before["despesas_fixas"].rows # <<>>) =>
            /\ HasColumn(db, "despesas_fixas", "ativo")
            /\ NullAtivo(db) = {}
            /\ \E i \in DOMAIN report :
                  report[i] = Entry("backfilled", "despesas_fixas", "ativo",
                                    Len(before["despesas_fixas"].rows))
    /\ (/\ ReconcileReturned
        /\ runs = 1
        /\ inserted
        /\ OnlyDespesasFixas(before)
        /\ HasColumn(before, "despesas_fixas", "ativo")
        /\ Cardinality(NullAtivo(before)) = 1) =>
            /\ NullAtivo(db) = {}
            /\ \E i \in DOMAIN report :
                  report[i] = Entry("backfilled", "despesas_fixas", "ativo", 1)

\* C7: reconcile keeps every table, column and row, keeps every non-null
\* value, and changes a NULL only in a column of the backfill list
C7_NonDestructive ==
    ReconcileReturned =>
        \A t \in TableNames :
            before[t].exists =>
                /\ db[t].exists
                /\ before[t].cols \subseteq db[t].cols
                /\ Len(db[t].rows) = Len(before[t].rows)
                /\ \A i \in DOMAIN before[t].rows :
                      /\ db[t].rows[i].id = before[t].rows[i].id
                      /\ \A c \in before[t].cols :
                            LET x == before[t].rows[i].v[c]
                                y == db[t].rows[i].v[c]
                            IN  /\ x # NULL => y = x
                                /\ y # x => <<t, Fold(c)>> \in BackfillList

\* a run that added a column and backfilled a NULL of a table that also
\* holds a row without NULLs
C7_Witness ==
    /\ ReconcileReturned
    /\ \E i \in DOMAIN report : report[i].kind = "added"
    /\ \E i \in DOMAIN report :
          /\ report[i].kind = "backfilled"
          /\ \E r \in Range(before[report[i].table].rows) :
                \A c \in DOMAIN r.v : r.v[c] # NULL

\* C8: a NULL in a column that is not on the backfill list is still NULL
\* after the run
C8_BackfillNarrow ==
    ReconcileReturned =>
        \A t \in Range(TableOrder) :
            \A c \in before[t].cols :
                <<t, Fold(c)>> \notin BackfillList =>
                    \A i \in DOMAIN before[t].rows :
                        before[t].rows[i].v[c] = NULL => db[t].rows[i].v[c] = NULL

\* a successful run that backfilled some column of a table while another
\* column of that table, not on the list, held a NULL
C8_Witness ==
    /\ ReconcileReturned
    /\ result
    /\ \E i \in DOMAIN report :
          /\ report[i].kind = "backfilled"
          /\ \E c \in before[report[i].table].cols :
                /\ <<report[i].table, Fold(c)>> \notin BackfillList
                /\ \E r \in Range(before[report[i].table].rows) : r.v[c] = NULL

\* the copy-swap created users_new and did not complete
SwapFailed ==
    /\ Entries(report, "create", "users_new") # {}
    /\ \A i \in DOMAIN report : report[i].kind # "migrated"

\* the table the copy-swap replaces the users table of d with
Replaced(d) ==
    [exists |-> TRUE,
     cols |-> UsersColumns,
     rows |-> [i \in DOMAIN d["users"].rows |-> CopyRow(d, d["users"].rows[i])]]

\* C2: when migrate_database returns after a copy-swap that failed once
\* users_new existed, users is the original table or the fully replaced one;
\* no return leaves users dropped, and none leaves users next to users_new
C2_RestructureAtomic ==
    MigrateReturned =>
        /\ SwapFailed => (db["users"] = before["users"] \/ db["users"] = Replaced(before))
        /\ before["users"].exists => db["users"].exists
        /\ ~(db["users"].exists /\ db["users_new"].exists)

\* the rename failed after DROP TABLE users ran, and the run returned with
\* the original rows
C2_Witness ==
    /\ MigrateReturned
    /\ SwapFailed
    /\ Entries(report, "drop", "users") # {}
    /\ before["users"].rows # <<>>
    /\ db["users"] = before["users"]

\* C3: when the copy stored a number of rows different from the number of
\* rows of users, the run fails with a data-loss error, neither DROP TABLE
\* users nor the rename runs, and users is unchanged
C3_RowCountGuard ==
    MigrateReturned =>
        \A i \in DOMAIN report :
            (report[i].kind = "copy" /\ report[i].count # Len(before["users"].rows)) =>
                /\ ~result
                /\ \E j \in DOMAIN report : j > i /\ report[j].kind = "dataloss"
                /\ Entries(report, "drop", "users") = {}
                /\ \A j \in DOMAIN report : report[j].kind # "rename"
                /\ db["users"] = before["users"]

\* a copy that stored fewer rows than users holds was detected
C3_Witness ==
    /\ MigrateReturned
    /\ ~result
    /\ \E i \in DOMAIN report :
          /\ report[i].kind = "copy"
          /\ report[i].count < Len(before["users"].rows)
    /\ \E i \in DOMAIN report : report[i].kind = "dataloss"

\* the copy-swap of this run completed
Restructured ==
    /\ script = "migrate"
    /\ pc = "tables"
    /\ \E i \in DOMAIN conn.report : conn.report[i].kind = "migrated"

\* the nome_completo the copy is to give a username
ExpectedNome(username) ==
    IF username = "master" THEN "Administrador Master"
    ELSE IF username = "daniela" THEN "Daniela Silva"
    ELSE IF username = "paulo" THEN "Paulo Santos"
    ELSE username

\* C9: after a completed copy-swap every original users row has exactly one
\* row of the new table with its id, username and password_hash and the
\* nome_completo derived from the username, and the new table has no other row
C9_TransformCorrect ==
    Restructured =>
        LET old == before["users"].rows
            new == conn.db["users"].rows
        IN  /\ \A i \in DOMAIN old :
                  /\ Cardinality({j \in DOMAIN new : new[j].id = old[i].id}) = 1
                  /\ \A j \in DOMAIN new :
                        new[j].id = old[i].id =>
                            /\ new[j].v["username"] = old[i].v["username"]
                            /\ new[j].v["password_hash"] = old[i].v["password_hash"]
                            /\ new[j].v["nome_completo"] = ExpectedNome(old[i].v["username"])
            /\ \A j \in DOMAIN new : \E i \in DOMAIN old : old[i].id = new[j].id

\* a completed copy-swap of a table holding master and a username that has
\* no special name
C9_Witness ==
    /\ Restructured
    /\ \E r \in Range(before["users"].rows) : r.v["username"] = "master"
    /\ \E r \in Range(before["users"].rows) :
          r.v["username"] \notin {"master", "daniela", "paulo"}

\* C10: a script exits with status 0 when its operation returned True and
\* with a nonzero status when it returned False
C10_ExitStatus ==
    pc = "exited" =>
        /\ result => exitStatus = 0
        /\ ~result => exitStatus # 0

\* C11: a reconcile run started without a database file fails at once: it
\* opens no connection, creates no file and executes no statement
C11_StorageUnavailable ==
    [][(script = "reconcile" /\ pc = "start" /\ ~fileExists) =>
          /\ pc' = "returned"
          /\ ~result'
          /\ ~fileExists'
          /\ db' = db
          /\ \A i \in DOMAIN report' : report'[i].kind = "nodb"]_vars

\* a run has returned and there is still no database file
C11_Witness ==
    /\ ReconcileReturned
    /\ ~fileExists
    /\ ~result
    /\ report = <<Entry("nodb", "", "", 0)>>

\* the step on which migrate_database returns True
SuccessfulReturn == script = "migrate" /\ pc = "indices" /\ pc' = "returned" /\ result'

\* the number of rows of table t whose column c holds val
CountWhere(d, t, c, val) ==
    IF d[t].exists THEN Cardinality(RowsWhere(d, t, c, val)) ELSE 0

DefaultUsernames == {usuarios_padrao[i][1] : i \in DOMAIN usuarios_padrao}

\* the values column c of table t holds
ValuesOf(d, t, c) == {Get(d, t, r, c) : r \in Range(d[t].rows)}

\* no row was inserted with a value of column c that table t already held,
\* and at most one with a value it did not hold
InsertedOnlyMissing(t, c) ==
    \A val \in ValuesOf(db', t, c) :
        CountWhere(db', t, c, val) =
            IF CountWhere(before, t, c, val) = 0 THEN 1
            ELSE CountWhere(before, t, c, val)

SeededTables == {"users", "categorias", "grupos", "grupo_membros"}

\* a successful run that follows a successful run adds no row
SecondRunAddsNothing ==
    (runs >= 1 /\ result) =>
        \A t \in SeededTables : Len(db'[t].rows) = Len(before[t].rows)

\* C12 as stated: after a successful run users holds exactly one row for
\* each default username, no category and no group 'Familia' is inserted
\* twice, and a second run adds no row
C12_SeedingIdempotent ==
    [][SuccessfulReturn =>
          /\ \A u \in DefaultUsernames : CountWhere(db', "users", "username", u) = 1
          /\ InsertedOnlyMissing("categorias", "nome")
          /\ CountWhere(db', "grupos", "nome", "Familia") <= 1
          /\ SecondRunAddsNothing]_vars

\* C12: a successful run inserts a users row only for a default username
\* that has none, a category only when its nome is absent, the group
\* 'Familia' only when no group has that name, and a successful run after a
\* successful run adds no row
C12_SeedingAddsMissingOnly ==
    [][SuccessfulReturn =>
          /\ \A u \in DefaultUsernames : CountWhere(db', "users", "username", u) >= 1
          /\ InsertedOnlyMissing("users", "username")
          /\ InsertedOnlyMissing("categorias", "nome")
          /\ InsertedOnlyMissing("grupos", "nome")
          /\ SecondRunAddsNothing]_vars

\* a second successful run has returned on a database that already held
\* some of the default categories before the first
C12_Witness ==
    /\ MigrateReturned
    /\ runs = 1
    /\ result
    /\ first.ok
    /\ CountWhere(db, "categorias", "nome", "Outros") = 1
    /\ CountWhere(db, "categorias", "nome", "Alimentacao") = 1
    /\ CountWhere(db, "grupos", "nome", "Familia") = 1

\* corrigir_arquivo_main has returned
PatchReturned == script = "patch" /\ pc = "returned"

\* C13: on the text a run of the patching script leaves, the two correction
\* passes find nothing; a second run does not write src/main.py, whose text
\* stays the one the first run left
C13_PatchIdempotent ==
    (PatchReturned /\ mainPy.exists) =>
        /\ corrigir_consultas_especificas(mainPy.conteudo) = NoResult
        /\ adicionar_prefixos_tabela(mainPy.conteudo) = NoResult
        /\ runs >= 1 =>
              /\ ~wrote
              /\ mainPy.conteudo = backups[Len(backups)]

\* the second run has returned on a text the first run changed
C13_Witness ==
    /\ PatchReturned
    /\ runs = 1
    /\ Len(backups) = 2
    /\ backups[1] # backups[2]
    /\ mainPy.conteudo = backups[2]

\* the target tables that are to have an ativo column
TablesWithAtivo ==
    {t \in Range(TableOrder) : "ativo" \in ExpectedNames(t)}

\* C14: after a successful reconcile no row of users, categorias,
\* despesas_fixas, grupos or cartoes has ativo NULL, and every row whose
\* ativo was NULL before the run has ativo true
C14_AtivoBackfilled ==
    (ReconcileReturned /\ result) =>
        \A t \in TablesWithAtivo :
            (db[t].exists /\ HasColumn(db, t, "ativo")) =>
                \A i \in DOMAIN db[t].rows :
                    /\ Get(db, t, db[t].rows[i], "ativo") # NULL
                    /\ (/\ HasColumn(before, t, "ativo")
                        /\ Get(before, t, before[t].rows[i], "ativo") = NULL) =>
                            Get(db, t, db[t].rows[i], "ativo") = "1"

\* the last entry of the trace of connection s is that column c was added
Added(s, t, c) ==
    /\ ~s.raised
    /\ s.report # <<>>
    /\ s.report[Len(s.report)] = Entry("added", t, c, 0)

\* after the addition of column c to table t of database d gave r: rows
\* and other columns as before, created_at set in every row, any other
\* column NULL in every row
AddedWithoutDefault(d, r, t, c) ==
    /\ Len(r.db[t].rows) = Len(d[t].rows)
    /\ \A i \in DOMAIN d[t].rows :
          /\ \A k \in d[t].cols : r.db[t].rows[i].v[k] = d[t].rows[i].v[k]
          /\ IF c = "created_at"
             THEN r.db[t].rows[i].v[c] # NULL
             ELSE r.db[t].rows[i].v[c] = NULL

\* the columns without a default the migration adds, with their table
MigrationAdditions ==
    {<<"categorias", columns_to_add[i][1]>> :
        i \in {j \in DOMAIN columns_to_add : columns_to_add[j][3] = None}}
    \cup {<<"despesas", despesas_new_columns[i][1]>> :
        i \in {j \in DOMAIN despesas_new_columns : despesas_new_columns[j][3] = None}}

\* C15: on the database a script is started on, each safe_add_column that
\* adds a column without a default leaves every row with a created_at that
\* is not NULL, or NULL in any other column, for which it issues no UPDATE
C15_BackfillOnAddition ==
    /\ (script = "reconcile" /\ pc = "start" /\ fileExists) =>
          \A t \in Range(TableOrder) :
              \A j \in DOMAIN estruturas_esperadas[t] :
                  LET c == estruturas_esperadas[t][j][1]
                      r == safe_add_column(Connect(db), t, c, None)
                  IN  (/\ estruturas_esperadas[t][j][3] = None
                       /\ db[t].exists
                       /\ Added(r, t, c)) =>
                          /\ AddedWithoutDefault(db, r, t, c)
                          /\ r.inTx <=> (c = "created_at")
    /\ (script = "migrate" /\ pc = "start") =>
          \A a \in MigrationAdditions :
              LET r == add_column(SqlBegin(Connect(db)), a[1], a[2], None)
              IN  (db[a[1]].exists /\ Added(r, a[1], a[2])) =>
                      AddedWithoutDefault(db, r, a[1], a[2])

\* a run added created_at and another column without default to a table
\* that holds rows: created_at is set and the other column is NULL
C15_Witness ==
    /\ ReconcileReturned
    /\ result
    /\ \E i, j \in DOMAIN report :
          LET t == report[i].table
          IN  /\ report[i] = Entry("added", t, "created_at", 0)
              /\ report[j].kind = "added"
              /\ report[j].table = t
              /\ report[j].column \in {"descricao", "observacoes", "email"}
              /\ before[t].rows # <<>>
              /\ \A r \in Range(db[t].rows) :
                    r.v["created_at"] = Now /\ r.v[report[j].column] = NULL

\* the positions of the PRAGMA foreign_keys = ON (OFF) of the trace
Pragmas(out, on) ==
    {i \in DOMAIN out :
        out[i].kind = "pragma" /\ out[i].column = (IF on THEN "ON" ELSE "OFF")}

\* C16: when migrate_database returns, every creation of users_new was
\* preceded by PRAGMA foreign_keys = OFF, and every PRAGMA foreign_keys =
\* OFF was followed by PRAGMA foreign_keys = ON
C16_ForeignKeysRestored ==
    MigrateReturned =>
        /\ \A j \in Entries(report, "create", "users_new") :
              \E i \in Pragmas(report, FALSE) : i < j
        /\ \A i \in Pragmas(report, FALSE) :
              \E j \in Pragmas(report, TRUE) : j > i

\* the temporary tables the run found when it started
Leftovers == {t \in Range(TempTables) : before[t].exists}

\* C17: when migrate_database returns on a database that held leftover
\* temporary tables, each was dropped before users_new was created, none
\* exists any more, users_new was created whenever users was to be
\* restructured, and users holds no row of the leftover users_new
C17_OrphanRecovery ==
    (MigrateReturned /\ Leftovers # {}) =>
        /\ \A t \in Leftovers :
              /\ ~db[t].exists
              /\ \E i \in Entries(report, "drop", t) :
                    \A j \in Entries(report, "create", "users_new") : i < j
        /\ (before["users"].exists /\ needs_migration(before)) =>
              Entries(report, "create", "users_new") # {}
        /\ db["users"].exists =>
              \A r \in Range(db["users"].rows) :
                  Get(db, "users", r, "username") # "ghost"

\* a run that found users_new left behind restructured users
C17_Witness ==
    /\ MigrateReturned
    /\ result
    /\ "users_new" \in Leftovers
    /\ before["users"].rows # <<>>
    /\ \E i \in DOMAIN report : report[i].kind = "migrated"
    /\ ~db["users_new"].exists

\* the tables whose rows reference users, and the referencing columns
Dependents == {"grupos", "grupo_membros", "cartoes", "despesas", "despesas_fixas"}

UserReferences == {"user_id", "criado_por", "adicionado_por"}

\* some row of a dependent table references the deleted user
DanglingReference(d) ==
    /\ \A u \in Range(d["users"].rows) : ToString(u.id) # DeletedUserId
    /\ \E t \in Dependents :
          \E c \in UserReferences \cap d[t].cols :
              \E r \in Range(d[t].rows) : r.v[c] = DeletedUserId

\* C18: a run that restructured users while a row of a dependent table
\* referenced a users id that does not exist returns False
C18_ViolationsSurfaced ==
    (/\ MigrateReturned
     /\ \E i \in DOMAIN report : report[i].kind = "migrated"
     /\ DanglingReference(before)) =>
        ~result

\* the run started the copy-swap of users
Triggered == Entries(report, "create", "users_new") # {}

\* the columns of new_columns the users table the run started on lacks
MissingNew == Range(new_columns) \ before["users"].cols

\* C19: the copy-swap starts exactly when users lacks one of nome_completo,
\* email, ativo, created_at, updated_at; a users table lacking only perfil is
\* reported up to date and left as it is; one lacking perfil and one of the
\* five makes the copy fail and the run roll everything back
C19_TriggerCondition ==
    MigrateReturned =>
        /\ Triggered <=> (before["users"].exists /\ MissingNew # {})
        /\ (before["users"].exists /\ MissingNew = {}) =>
              /\ Entries(report, "uptodate", "users") # {}
              /\ db["users"].cols = before["users"].cols
        /\ (/\ before["users"].exists
            /\ MissingNew # {}
            /\ "perfil" \notin before["users"].cols) =>
              /\ ~result
              /\ \A i \in DOMAIN report : report[i].kind \notin {"copy", "migrated"}
              /\ \A t \in TableNames \ Range(TempTables) : db[t] = before[t]

\* a users table lacking only perfil was reported up to date
C19_Witness ==
    /\ MigrateReturned
    /\ before["users"].exists
    /\ before["users"].rows # <<>>
    /\ MissingNew = {}
    /\ "perfil" \notin before["users"].cols
    /\ Entries(report, "uptodate", "users") # {}
    /\ ~Triggered

\* the email the copy is to give a username
ExpectedEmail(username) ==
    IF username = "master" THEN "admin@portal.com"
    ELSE IF username = "daniela" THEN "daniela@email.com"
    ELSE IF username = "paulo" THEN "paulo@email.com"
    ELSE NULL

\* C20: after a completed copy-swap every users row has the perfil of the
\* original row ('usuario' where it was NULL), ativo 1, and the
\* nome_completo and email its username determines, whatever the original
\* row stored in nome_completo, email, ativo, created_at or updated_at
C20_CopiesOnlyFour ==
    Restructured =>
        \A r \in Range(conn.db["users"].rows) :
            \E o \in Range(before["users"].rows) :
                /\ o.id = r.id
                /\ r.v["username"] = o.v["username"]
                /\ r.v["password_hash"] = o.v["password_hash"]
                /\ r.v["perfil"] = (IF o.v["perfil"] = NULL THEN "usuario"
                                    ELSE o.v["perfil"])
                /\ r.v["ativo"] = "1"
                /\ r.v["nome_completo"] = ExpectedNome(o.v["username"])
                /\ r.v["email"] = ExpectedEmail(o.v["username"])
                /\ r.v["created_at"] = Now
                /\ r.v["updated_at"] = Now

\* a completed copy-swap of a row that stored a nome_completo and an email
\* of its own
C20_Witness ==
    /\ Restructured
    /\ \E o \in Range(before["users"].rows) :
          /\ {"nome_completo", "email"} \subseteq before["users"].cols
          /\ o.v["nome_completo"] = Old
          /\ o.v["email"] = Old
          /\ \E r \in Range(conn.db["users"].rows) :
                r.id = o.id /\ r.v["nome_completo"] # Old /\ r.v["email"] # Old

\* the entry of usuarios_padrao for a default username
DefaultOf(username) ==
    usuarios_padrao[CHOOSE i \in DOMAIN usuarios_padrao :
                        usuarios_padrao[i][1] = username]

\* what row o of tbl stores in column c, NULL when tbl has no such column
ValueOr(tbl, o, c) == IF c \in tbl.cols THEN o.v[c] ELSE NULL

\* row r is row o of tbl with password_hash and perfil set to the defaults
\* of its username, the same id, and the nome_completo and email of o
\* where o stores one
OverwrittenFrom(tbl, o, r) ==
    LET u == DefaultOf(o.v["username"])
    IN  /\ r.id = o.id
        /\ r.v["username"] = o.v["username"]
        /\ r.v["password_hash"] = u[2]
        /\ r.v["perfil"] = u[3]
        /\ ValueOr(tbl, o, "nome_completo") # NULL =>
               r.v["nome_completo"] = o.v["nome_completo"]
        /\ ValueOr(tbl, o, "email") # NULL => r.v["email"] = o.v["email"]

\* every row of tbl with a default username is in users of d, overwritten
DefaultsOverwritten(tbl, d) ==
    \A o \in Range(tbl.rows) :
        o.v["username"] \in DefaultUsernames =>
            \E r \in Range(d["users"].rows) : OverwrittenFrom(tbl, o, r)

\* step [7/8] has run to its end
SeedStep == script = "migrate" /\ pc = "seed" /\ pc' = "indices"

\* the seeding step leaves every row of another username as it was
OthersUnchanged ==
    \A o \in Range(conn.db["users"].rows) :
        o.v["username"] \notin DefaultUsernames =>
            o \in Range(conn'.db["users"].rows)

PatchReturn == script = "patch" /\ pc # "returned" /\ pc' = "returned"

\* the two correction passes find something in the text
CorrectionFound(file) == file.exists /\ Corrigir(file.conteudo).correcoes # <<>>

\* this run took a backup and its text is the text of src/main.py
BackedUp ==
    /\ pc = "backup"
    /\ Len(backups) = runs + 1
    /\ backups[Len(backups)] = mainPy.conteudo

\* C22: src/main.py is written only on the step on which
\* corrigir_arquivo_main returns, only when a correction was found, and
\* only after this run copied its text to a backup, which the write leaves
\* alone; a run that finds no correction leaves src/main.py as it was and
\* returns False
C22_BackupPrecedesWrite ==
    [][/\ ((PatchReturn /\ wrote') \/ mainPy' # mainPy) =>
             /\ PatchReturn
             /\ CorrectionFound(mainPy)
             /\ BackedUp
             /\ backups' = backups
             /\ result'
       /\ (PatchReturn /\ ~CorrectionFound(mainPy)) =>
             /\ mainPy' = mainPy
             /\ ~wrote'
             /\ ~result']_vars

\* a run has overwritten src/main.py with another text and the backup it
\* took holds the text the run started on
C22_Witness ==
    /\ PatchReturned
    /\ runs = 0
    /\ wrote
    /\ result
    /\ Len(backups) = 1
    /\ backups[1] # mainPy.conteudo
    /\ Corrigir(backups[1]).conteudo = mainPy.conteudo

====
